---- MODULE Spec2Model ----
(***************************************************************************)
(* Model of bootstrap_polling_sample: an in-memory key-value node          *)
(* (src/src/shared_db.rs) served over HTTP (src/src/main.rs), and the      *)
(* polling bootstrap loop that copies a remote node into a local one.      *)
(*                                                                         *)
(* Two nodes are modelled: "R", the remote being copied, and "L", the      *)
(* local node that was started with a bootstrap port and runs the fetch    *)
(* loop against "R".  Both serve /insert, /info and /fetch to clients.     *)
(*                                                                         *)
(* Spec and SpecLong take every handler and every round of the fetch loop  *)
(* as one step per critical section.  SpecLock follows SharedDB::append    *)
(* inside its critical section, one modification at a time, keeps the      *)
(* fetch loop's request in flight, and follows ctrl-c to the exit of the   *)
(* process.                                                                *)
(*                                                                         *)
(* Keys are the naturals 1..NumKeys; key k stands for the k-th string of  *)
(* a key universe sorted by String's Ord, so that < on keys is the         *)
(* BTreeMap iteration order.  Values are small naturals.                   *)
(***************************************************************************)
EXTENDS Integers, Sequences, FiniteSets, TLC

(***************************************************************************)
(* Program constants (src/src/main.rs:14-15) and integer widths.           *)
(***************************************************************************)
MAX_CHUNK_SIZE == 20

CACHE_BUFFER_SIZE == 1000

(***************************************************************************)
(* Bounds of the model.                                                    *)
(***************************************************************************)
\* client requests explored from the freshly constructed nodes
MaxRequests == 3

\* client requests explored on top of the long remote history
MaxRequestsLong == 1

\* size of the key universe; the long remote history writes every key
NumKeys == 45

\* client requests explored when append is followed inside its critical section
MaxRequestsLock == 2

Min(a, b) == IF a < b THEN a ELSE b

(***************************************************************************)
(* enum EntryModif { Delete(String), Update((String, String)) }            *)
(***************************************************************************)
Delete(k) == [op |-> "Delete", key |-> k]

Update(k, v) == [op |-> "Update", key |-> k, val |-> v]

\* BTreeMap<String, String>: a function from the present keys to values.
EmptyMap == [k \in {} |-> 0]

\* A remove that empties the map.
MapRemove_Clear(data, k) == [j \in {i \in DOMAIN data : i # i /\ i # k} |-> data[j]]

\* BTreeMap::remove
MapRemove(data, k) == [j \in (DOMAIN data) \ {k} |-> data[j]]

\* An insert that adds the new value to the one already there.
MapInsert_Accumulate(data, k, v) ==
    [j \in (DOMAIN data) \cup {k} |->
        IF j # k THEN data[j] ELSE IF k \in DOMAIN data THEN data[k] + v ELSE v]

\* BTreeMap::insert
MapInsert(data, k, v) == [j \in (DOMAIN data) \cup {k} |-> IF j = k THEN v ELSE data[j]]

\* ApplyModif with the Delete arm doing nothing.
ApplyModif_DeleteIgnored(data, m) ==
    IF m.op = "Delete" THEN data
    ELSE MapInsert(data, m.key, m.val)

\* One arm of the match in SharedDB::append.
ApplyModif(data, m) ==
    IF m.op = "Delete" THEN MapRemove(data, m.key)
    ELSE MapInsert(data, m.key, m.val)

\* The for loop of SharedDB::append: modifs[lo..hi] applied first to last.
\* The range is split in halves, the first half evaluated before the second
\* is entered, so that long batches do not nest deeply.
RECURSIVE ApplyRange(_, _, _, _)
ApplyRange(data, modifs, lo, hi) ==
    IF lo > hi THEN data
    ELSE IF lo = hi THEN ApplyModif(data, modifs[lo])
    ELSE LET mid   == (lo + hi) \div 2
             first == ApplyRange(data, modifs, lo, mid)
         IN  IF DOMAIN first = {} THEN ApplyRange(EmptyMap, modifs, mid + 1, hi)
             ELSE ApplyRange(first, modifs, mid + 1, hi)

ApplyModifs(data, modifs) == ApplyRange(data, modifs, 1, Len(modifs))

(***************************************************************************)
(* ModifsCache(VecDeque<(Head, Vec<EntryModif>)>): a sequence of           *)
(* [head, modifs] records, index 1 being the front of the deque.           *)
(***************************************************************************)
\* ModifsCache::head - reads the BACK of the deque.
ModifsCache_head(cache) ==
    IF Len(cache) = 0 THEN 0 ELSE cache[Len(cache)].head

\* ModifsCache::append evicting with pop_front instead of pop_back.
ModifsCache_append_PopFront(cache, modifs) ==
    LET new_head == ModifsCache_head(cache) + 1
        pushed   == <<[head |-> new_head, modifs |-> modifs]>> \o cache
    IN  IF Len(pushed) > CACHE_BUFFER_SIZE
        THEN SubSeq(pushed, 2, Len(pushed))
        ELSE pushed

\* ModifsCache::append.  In `self.head() + 1 % u32::MAX` the % binds
\* tighter than the +, and 1 % u32::MAX = 1, so new_head = head() + 1.  The
\* u32 addition can only overflow at head() = u32::MAX = 2^32 - 1, which
\* takes more than 2^32 appends and lies beyond every behaviour explored
\* here, so heads are plain naturals.
ModifsCache_append(cache, modifs) ==
    LET new_head == ModifsCache_head(cache) + 1
        pushed   == <<[head |-> new_head, modifs |-> modifs]>> \o cache
    IN  IF Len(pushed) > CACHE_BUFFER_SIZE
        THEN SubSeq(pushed, 1, Len(pushed) - 1)
        ELSE pushed

\* Concatenation of the modifs of cache[lo..hi], front to back.
RECURSIVE ConcatModifs(_, _, _)
ConcatModifs(cache, lo, hi) ==
    IF lo > hi THEN <<>>
    ELSE IF lo = hi THEN cache[lo].modifs
    ELSE LET mid == (lo + hi) \div 2
         IN  ConcatModifs(cache, lo, mid) \o ConcatModifs(cache, mid + 1, hi)

\* A diff that returns the selected batches oldest batch first.
ModifsCache_diff_OldestFirst(cache, head) ==
    LET hits == {i \in 1..Len(cache) : cache[i].head = head}
        stop == IF hits = {} THEN Len(cache) + 1
                ELSE CHOOSE i \in hits : \A j \in hits : i <= j
        sel  == [i \in 1..(stop - 1) |-> cache[stop - i]]
    IN  ConcatModifs(sel, 1, stop - 1)

\* ModifsCache::diff: iterate from the front, break at the first batch
\* whose head equals `head`, accumulate the batches before it.
ModifsCache_diff(cache, head) ==
    LET hits == {i \in 1..Len(cache) : cache[i].head = head}
        stop == IF hits = {} THEN Len(cache) + 1
                ELSE CHOOSE i \in hits : \A j \in hits : i <= j
    IN  ConcatModifs(cache, 1, stop - 1)

(***************************************************************************)
(* struct DB { data, cache } behind SharedDB's mutex: every operation      *)
(* below is one critical section.                                          *)
(***************************************************************************)
EmptyDB == [data |-> EmptyMap, cache |-> <<>>]

\* SharedDB::append
SharedDB_append(d, modifs) ==
    [data  |-> ApplyModifs(d.data, modifs),
     cache |-> ModifsCache_append(d.cache, modifs)]

\* SharedDB::info
SharedDB_info(d) == [head |-> ModifsCache_head(d.cache), size |-> Cardinality(DOMAIN d.data)]

\* data.iter(): the keys of the map in ascending order.
KeysInOrder(data) ==
    LET Present(k) == k \in DOMAIN data
    IN  SelectSeq([k \in 1..NumKeys |-> k], Present)

\* take_chunk without the skip(from).
take_chunk_NoSkip(data, from, size) ==
    LET keys == KeysInOrder(data)
        n    == Min(size, Len(keys))
    IN  [i \in 1..n |-> Update(keys[i], data[keys[i]])]

\* take_chunk: data.iter().skip(from).take(size).map(Update).collect()
take_chunk(data, from, size) ==
    LET keys == KeysInOrder(data)
        n    == IF from >= Len(keys) THEN 0 ELSE Min(size, Len(keys) - from)
    IN  [i \in 1..n |-> Update(keys[from + i], data[keys[from + i]])]

\* The page size without the cap of MAX_CHUNK_SIZE.
PageSize_Uncapped(begin, end) ==
    IF end >= begin THEN end - begin ELSE MAX_CHUNK_SIZE

\* The usize expression min(MAX_CHUNK_SIZE, end - begin) of SharedDB::fetch.
\* For end < begin a build without overflow checks wraps the subtraction to
\* 2^64 - (begin - end), which exceeds MAX_CHUNK_SIZE for every begin used
\* here; a build with overflow checks panics instead (see Fetch).
PageSize(begin, end) ==
    IF end >= begin THEN Min(MAX_CHUNK_SIZE, end - begin) ELSE MAX_CHUNK_SIZE

\* SharedDB::fetch
SharedDB_fetch(d, begin, end, head) ==
    [head    |-> ModifsCache_head(d.cache),
     entries |-> take_chunk(d.data, begin, PageSize(begin, end)),
     diff    |-> ModifsCache_diff(d.cache, head)]

(***************************************************************************)
(* State.                                                                  *)
(***************************************************************************)
VARIABLES
    db,      \* db[n]: the DB record behind node n's SharedDB
    hist,    \* hist[n]: every batch SharedDB::append was called with on n, in order
    resp,    \* the HTTP response most recently produced by services_impl
    drv,     \* the task of spawn_fetch_loop on "L": pc, index, end, head, res
    seen,    \* what the fetch loop asked of "R" and what "R" held when it answered
    budget,  \* client requests still to be explored
    crit,    \* crit[n]: the holder of node n's mutex and how far its append has got
    proc     \* proc[n]: how far main() of node n has got: "up", "stopping"
             \* (ctrl-c received), "drained" (graceful.await has returned),
             \* "dumped" (dump() has returned) or "exited"

vars == <<db, hist, resp, drv, seen, budget, crit, proc>>

Nodes == {"R", "L"}

NoResp == [kind |-> "none"]

NoRes == [head |-> 0, entries |-> <<>>, diff |-> <<>>]

\* Bodies a client posts to /insert.
\* One batch writing two keys more than a page holds.
BigBatch == [k \in 1..(MAX_CHUNK_SIZE + 2) |-> Update(k, 1)]

ClientBatches ==
    {<<>>, <<Update(1, 1)>>, <<Update(1, 2)>>, <<Update(2, 2)>>,
     <<Update(1, 1), Delete(1)>>, BigBatch}

\* (begin, end, head) a client sends to /fetch on node n: the whole store
\* from head 0, and one key, a range wider than a page and an inverted range
\* from the head the node reports.
FetchArgs(n) ==
    LET head == ModifsCache_head(db[n].cache)
    IN  {<<0, Cardinality(DOMAIN db[n].data), 0>>, <<0, 1, head>>,
         <<1, MAX_CHUNK_SIZE + 2, head>>, <<1, 0, head>>}

\* tokio::sync::Mutex<DB>: nobody holds it.
Idle == [owner |-> "none", modifs |-> <<>>, pos |-> 0]

\* A lock() that completes whoever holds the mutex.
LockFree_Ignored(n) == n \in Nodes

\* self.0.lock().await completes for a new holder.
LockFree(n) == crit[n].owner = "none"

\* The server of node n answers requests: main() is still in graceful.await.
Alive(n) == proc[n] \in {"up", "stopping"}

\* The state main() builds: SharedDB::default() on both nodes, and on "L"
\* the fetch loop spawned and about to send its info request.
InitDrv == [pc |-> "info", index |-> 0, end |-> 0, head |-> 0, res |-> NoRes]

\* Nothing asked of "R" yet.  data, appends: the store of "R" and the number
\* of appends it had had when it last answered the loop; atInfo: the same
\* number when it answered the info request; size, head: the size carried
\* by the answer to the info request and the head carried by the last
\* answer; rounds: the `begin` of every fetch request of the loop; applied:
\* the appends the loop has completed on "L"; queued: the last fetch
\* request was sent while "R" was part-way through a batch; signalled:
\* ctrl-c reached "L" while a fetch request of the loop was in flight.
InitSeen ==
    [data |-> EmptyMap, appends |-> 0, atInfo |-> 0, size |-> 0, head |-> 0,
     rounds |-> <<>>, applied |-> 0, queued |-> FALSE, signalled |-> FALSE]

Init ==
    /\ db = [n \in Nodes |-> EmptyDB]
    /\ hist = [n \in Nodes |-> <<>>]
    /\ resp = NoResp
    /\ drv = InitDrv
    /\ seen = InitSeen
    /\ budget = MaxRequests
    /\ crit = [n \in Nodes |-> Idle]
    /\ proc = [n \in Nodes |-> "up"]

(***************************************************************************)
(* services_impl: one action per route.                                    *)
(***************************************************************************)
\* (POST, "/insert"): db.append(modifs), then an empty 200 response.
Insert(n, modifs) ==
    /\ budget > 0
    /\ Alive(n)
    /\ LockFree(n)
    /\ budget' = budget - 1
    /\ db' = [db EXCEPT ![n] = SharedDB_append(db[n], modifs)]
    /\ hist' = [hist EXCEPT ![n] = Append(hist[n], modifs)]
    /\ resp' = [kind |-> "insert", node |-> n, status |-> 200]
    /\ UNCHANGED <<drv, seen, crit, proc>>

\* (GET, "/info")
Info(n) ==
    /\ budget > 0
    /\ Alive(n)
    /\ LockFree(n)
    /\ budget' = budget - 1
    /\ resp' = [kind |-> "info", node |-> n, status |-> 200, body |-> SharedDB_info(db[n])]
    /\ UNCHANGED <<db, hist, drv, seen, crit, proc>>

\* (GET, "/fetch"), begin <= end, or end < begin without overflow checks.
Fetch(n, begin, end, head) ==
    /\ budget > 0
    /\ Alive(n)
    /\ LockFree(n)
    /\ budget' = budget - 1
    /\ resp' = [kind |-> "fetch", node |-> n, status |-> 200,
                begin |-> begin, end |-> end, arg |-> head,
                body |-> SharedDB_fetch(db[n], begin, end, head)]
    /\ UNCHANGED <<db, hist, drv, seen, crit, proc>>

\* (GET, "/fetch"), end < begin with overflow checks: `end - begin` panics
\* inside the handler task and the connection is closed without a response.
FetchPanic(n, begin, end) ==
    /\ budget > 0
    /\ Alive(n)
    /\ LockFree(n)
    /\ budget' = budget - 1
    /\ end < begin
    /\ resp' = [kind |-> "fetch", node |-> n, status |-> 0,
                begin |-> begin, end |-> end]
    /\ UNCHANGED <<db, hist, drv, seen, crit, proc>>

\* Any other method or path.
NotFound(n) ==
    /\ budget > 0
    /\ budget' = budget - 1
    /\ Alive(n)
    /\ resp' = [kind |-> "other", status |-> 404]
    /\ UNCHANGED <<db, hist, drv, seen, crit, proc>>

(***************************************************************************)
(* spawn_fetch_loop, running on "L" against target "R".                    *)
(***************************************************************************)
\* info_request: "R" serves /info; index, end and head are initialised.
DriverInfo ==
    /\ drv.pc = "info"
    /\ Alive("R")
    /\ LockFree("R")
    /\ LET info == SharedDB_info(db["R"])
       IN  /\ drv' = [drv EXCEPT !.pc = "loop", !.index = 0,
                                 !.end = info.size, !.head = info.head]
           /\ resp' = [kind |-> "info", node |-> "R", status |-> 200, body |-> info]
    /\ seen' = [seen EXCEPT !.data = db["R"].data, !.appends = Len(hist["R"]),
                             !.atInfo = Len(hist["R"]),
                             !.size = Cardinality(DOMAIN db["R"].data),
                             !.head = ModifsCache_head(db["R"].cache)]
    /\ UNCHANGED <<db, hist, budget, crit, proc>>

\* `while index < end` holds: fetch_request, served by "R" in one critical
\* section; the response is with the loop when the action ends.
DriverFetch ==
    /\ drv.pc = "loop"
    /\ drv.index < drv.end
    /\ Alive("R")
    /\ LockFree("R")
    /\ LET begin == drv.index
           end   == Min(drv.index + MAX_CHUNK_SIZE, drv.end)
           res   == SharedDB_fetch(db["R"], begin, end, drv.head)
       IN  /\ drv' = [drv EXCEPT !.pc = "fetched", !.res = res]
           /\ resp' = [kind |-> "fetch", node |-> "R", status |-> 200,
                       begin |-> begin, end |-> end, arg |-> drv.head, body |-> res]
    /\ seen' = [seen EXCEPT !.data = db["R"].data, !.appends = Len(hist["R"]),
                             !.rounds = Append(seen.rounds, drv.index),
                             !.head = ModifsCache_head(db["R"].cache)]
    /\ UNCHANGED <<db, hist, budget, crit, proc>>

\* DriverAppend advancing index by the number of entries received.
DriverAppend_AdvanceByEntries ==
    /\ drv.pc = "fetched"
    /\ LockFree("L")
    /\ LET modifs == drv.res.entries \o drv.res.diff
       IN  /\ db' = [db EXCEPT !["L"] = SharedDB_append(db["L"], modifs)]
           /\ hist' = [hist EXCEPT !["L"] = Append(hist["L"], modifs)]
    /\ drv' = [drv EXCEPT !.pc = "sleep", !.head = drv.res.head,
                          !.index = drv.index + Len(drv.res.entries), !.res = NoRes]
    /\ seen' = [seen EXCEPT !.applied = seen.applied + 1]
    /\ UNCHANGED <<resp, budget, crit, proc>>

\* DriverAppend keeping the head it had.
DriverAppend_KeepHead ==
    /\ drv.pc = "fetched"
    /\ LockFree("L")
    /\ LET modifs == drv.res.entries \o drv.res.diff
       IN  /\ db' = [db EXCEPT !["L"] = SharedDB_append(db["L"], modifs)]
           /\ hist' = [hist EXCEPT !["L"] = Append(hist["L"], modifs)]
    /\ drv' = [drv EXCEPT !.pc = "sleep",
                          !.index = drv.index + MAX_CHUNK_SIZE, !.res = NoRes]
    /\ seen' = [seen EXCEPT !.applied = seen.applied + 1]
    /\ UNCHANGED <<resp, budget, crit, proc>>

\* head = res.head; index += MAX_CHUNK_SIZE; res.entries.append(&mut res.diff);
\* db.append(res.entries).await; then the loop sleeps.
DriverAppend ==
    /\ drv.pc = "fetched"
    /\ LockFree("L")
    /\ LET modifs == drv.res.entries \o drv.res.diff
       IN  /\ db' = [db EXCEPT !["L"] = SharedDB_append(db["L"], modifs)]
           /\ hist' = [hist EXCEPT !["L"] = Append(hist["L"], modifs)]
    /\ drv' = [drv EXCEPT !.pc = "sleep", !.head = drv.res.head,
                          !.index = drv.index + MAX_CHUNK_SIZE, !.res = NoRes]
    /\ seen' = [seen EXCEPT !.applied = seen.applied + 1]
    /\ UNCHANGED <<resp, budget, crit, proc>>

\* select!: the sleep of BOOTSTRAP_FETCH_PERIOD elapses first => continue.
DriverWake ==
    /\ drv.pc = "sleep"
    /\ drv' = [drv EXCEPT !.pc = "loop"]
    /\ UNCHANGED <<db, hist, resp, seen, budget, crit, proc>>

\* A loop that also returns on a ctrl-c while its fetch request is in flight.
DriverCancel_Anytime ==
    /\ drv.pc \in {"sleep", "fetching"}
    /\ drv' = [drv EXCEPT !.pc = "Cancelled"]
    /\ proc' = [proc EXCEPT !["L"] = IF proc["L"] = "up" THEN "stopping" ELSE proc["L"]]
    /\ UNCHANGED <<db, hist, resp, seen, budget, crit>>

\* select!: ctrl-c reaches the process of "L" during the sleep and the
\* ctrl_c() arm completes first => return.
DriverCancel ==
    /\ drv.pc = "sleep"
    /\ drv' = [drv EXCEPT !.pc = "Cancelled"]
    /\ proc' = [proc EXCEPT !["L"] = IF proc["L"] = "up" THEN "stopping" ELSE proc["L"]]
    /\ UNCHANGED <<db, hist, resp, seen, budget, crit>>

\* `while index < end` fails: the task ends.
DriverExit ==
    /\ drv.pc = "loop"
    /\ drv.index >= drv.end
    /\ drv' = [drv EXCEPT !.pc = "CaughtUp"]
    /\ UNCHANGED <<db, hist, resp, seen, budget, crit, proc>>

ClientInsert == \E n \in Nodes, modifs \in ClientBatches : Insert(n, modifs)

ClientInfo == \E n \in Nodes : Info(n)

ClientFetch == \E n \in Nodes : \E a \in FetchArgs(n) : Fetch(n, a[1], a[2], a[3])

ClientFetchPanic == \E n \in Nodes : \E a \in FetchArgs(n) : FetchPanic(n, a[1], a[2])

ClientOther == \E n \in Nodes : NotFound(n)

Next ==
    \/ ClientInsert
    \/ ClientInfo
    \/ ClientFetch
    \/ ClientFetchPanic
    \/ ClientOther
    \/ DriverInfo
    \/ DriverFetch
    \/ DriverAppend
    \/ DriverWake
    \/ DriverCancel
    \/ DriverExit

Spec == Init /\ [][Next]_vars

(***************************************************************************)
(* The same program observed late in the life of "R": LongAppends batches  *)
(* have been posted to /insert on "R" before "L" is started.  The first    *)
(* 2 * NumKeys of them write each of NumKeys keys twice (value 1, then   *)
(* value 2), the others are empty batches.                                 *)
(***************************************************************************)
LongAppends == CACHE_BUFFER_SIZE

LongBatch(i) ==
    IF i <= 2 * NumKeys
    THEN <<Update(((i - 1) % NumKeys) + 1, 1 + ((i - 1) \div NumKeys))>>
    ELSE <<>>

\* SharedDB::append applied for batches lo..hi of the long history, the
\* first half evaluated before the second is entered (after an append the
\* cache is never empty).
RECURSIVE AfterLong(_, _, _)
AfterLong(d, lo, hi) ==
    IF lo > hi THEN d
    ELSE IF lo = hi THEN SharedDB_append(d, LongBatch(lo))
    ELSE LET mid   == (lo + hi) \div 2
             first == AfterLong(d, lo, mid)
         IN  IF Len(first.cache) = 0 THEN d
             ELSE AfterLong(first, mid + 1, hi)

InitLong ==
    /\ db = [n \in Nodes |-> IF n = "R" THEN AfterLong(EmptyDB, 1, LongAppends) ELSE EmptyDB]
    /\ hist = [n \in Nodes |-> IF n = "R" THEN [i \in 1..LongAppends |-> LongBatch(i)] ELSE <<>>]
    /\ resp = NoResp
    /\ drv = InitDrv
    /\ seen = InitSeen
    /\ budget = MaxRequestsLong
    /\ crit = [n \in Nodes |-> Idle]
    /\ proc = [n \in Nodes |-> "up"]

SpecLong == InitLong /\ [][Next]_vars

(***************************************************************************)
(* The same program with SharedDB::append followed inside its critical     *)
(* section, the fetch request of the loop in flight between its sending    *)
(* and its answer, and ctrl-c followed through main(): the end of the      *)
(* graceful shutdown, the dump, and the exit of the process.               *)
(***************************************************************************)
\* Bodies posted to /insert: one key, another key, and a batch of two
\* modifications.
LockBatches == {<<Update(1, 1)>>, <<Update(2, 2)>>, <<Update(1, 1), Delete(1)>>}

\* (POST, "/insert") up to `let mut guard = self.0.lock().await`.
InsertLock(n, modifs) ==
    /\ budget > 0
    /\ Alive(n)
    /\ LockFree(n)
    /\ budget' = budget - 1
    /\ crit' = [crit EXCEPT ![n] = [owner |-> "client", modifs |-> modifs, pos |-> 0]]
    /\ hist' = [hist EXCEPT ![n] = Append(hist[n], modifs)]
    /\ UNCHANGED <<db, resp, drv, seen, proc>>

\* One iteration of `for m in &modifs` under the guard.
AppendStep(n) ==
    /\ crit[n].owner # "none"
    /\ crit[n].pos < Len(crit[n].modifs)
    /\ db' = [db EXCEPT ![n].data = ApplyModif(db[n].data, crit[n].modifs[crit[n].pos + 1])]
    /\ crit' = [crit EXCEPT ![n].pos = crit[n].pos + 1]
    /\ UNCHANGED <<hist, resp, drv, seen, budget, proc>>

\* guard.cache.append(modifs), the guard is dropped, and the caller goes
\* on: services_impl answers 200, the fetch loop starts its sleep.
AppendRecord(n) ==
    /\ crit[n].owner # "none"
    /\ crit[n].pos = Len(crit[n].modifs)
    /\ db' = [db EXCEPT ![n].cache = ModifsCache_append(db[n].cache, crit[n].modifs)]
    /\ crit' = [crit EXCEPT ![n] = Idle]
    /\ IF crit[n].owner = "driver"
       THEN /\ drv' = [drv EXCEPT !.pc = "sleep"]
            /\ seen' = [seen EXCEPT !.applied = seen.applied + 1]
            /\ resp' = resp
       ELSE /\ resp' = [kind |-> "insert", node |-> n, status |-> 200]
            /\ UNCHANGED <<drv, seen>>
    /\ UNCHANGED <<hist, budget, proc>>

\* `while index < end` holds: fetch_request sends the request.
DriverFetchSend ==
    /\ drv.pc = "loop"
    /\ drv.index < drv.end
    /\ drv' = [drv EXCEPT !.pc = "fetching"]
    /\ seen' = [seen EXCEPT !.rounds = Append(seen.rounds, drv.index),
                             !.queued = (crit["R"].owner # "none" /\ crit["R"].pos > 0)]
    /\ UNCHANGED <<db, hist, resp, budget, crit, proc>>

\* "R" serves the request in flight once its mutex is free; the response
\* is with the loop when the action ends.
DriverFetchServe ==
    /\ drv.pc = "fetching"
    /\ Alive("R")
    /\ LockFree("R")
    /\ LET begin == drv.index
           end   == Min(drv.index + MAX_CHUNK_SIZE, drv.end)
           res   == SharedDB_fetch(db["R"], begin, end, drv.head)
       IN  /\ drv' = [drv EXCEPT !.pc = "fetched", !.res = res]
           /\ resp' = [kind |-> "fetch", node |-> "R", status |-> 200,
                       begin |-> begin, end |-> end, arg |-> drv.head, body |-> res]
    /\ seen' = [seen EXCEPT !.data = db["R"].data, !.appends = Len(hist["R"]),
                             !.head = ModifsCache_head(db["R"].cache)]
    /\ UNCHANGED <<db, hist, budget, crit, proc>>

\* The server of "R" is shutting down or gone and the request fails:
\* client.get(..).await.unwrap() or client.request(req).await.unwrap()
\* panics and the task ends.
DriverRemoteDown ==
    /\ drv.pc \in {"info", "fetching"}
    /\ proc["R"] # "up"
    /\ drv' = [drv EXCEPT !.pc = "Panicked"]
    /\ UNCHANGED <<db, hist, resp, seen, budget, crit, proc>>

\* head = res.head; index += MAX_CHUNK_SIZE; res.entries.append(&mut res.diff);
\* db.append(res.entries) up to the lock of "L".
DriverAppendLock ==
    /\ drv.pc = "fetched"
    /\ LockFree("L")
    /\ LET modifs == drv.res.entries \o drv.res.diff
       IN  /\ crit' = [crit EXCEPT !["L"] = [owner |-> "driver", modifs |-> modifs, pos |-> 0]]
           /\ hist' = [hist EXCEPT !["L"] = Append(hist["L"], modifs)]
    /\ drv' = [drv EXCEPT !.pc = "appending", !.head = drv.res.head,
                          !.index = drv.index + MAX_CHUNK_SIZE, !.res = NoRes]
    /\ UNCHANGED <<db, resp, seen, budget, proc>>

\* ctrl-c reaches the process of node n: shutdown_signal() completes and
\* the server starts its graceful shutdown.  The fetch loop does not hear
\* it: it listens only inside its select!, where DriverCancel is the
\* ctrl_c() arm and this action the case of the sleep arm winning.
Signal(n) ==
    /\ proc[n] = "up"
    /\ proc' = [proc EXCEPT ![n] = "stopping"]
    /\ seen' = IF n = "L" /\ drv.pc = "fetching"
               THEN [seen EXCEPT !.signalled = TRUE]
               ELSE seen
    /\ UNCHANGED <<db, hist, resp, drv, budget, crit>>

\* SharedDB::dump: the lines printed, in key order.
SharedDB_dump(d) ==
    LET keys == KeysInOrder(d.data)
    IN  [i \in 1..Len(keys) |-> <<keys[i], d.data[keys[i]]>>]

\* graceful.await returns: the requests in flight have been answered and
\* the server of node n answers no more.
ServerStop(n) ==
    /\ proc[n] = "stopping"
    /\ crit[n].owner # "client"
    /\ proc' = [proc EXCEPT ![n] = "drained"]
    /\ UNCHANGED <<db, hist, resp, drv, seen, budget, crit>>

\* A dump that takes the entries out of the store.
Dump_Draining(n) ==
    /\ proc[n] = "drained"
    /\ LockFree(n)
    /\ resp' = [kind |-> "dump", node |-> n, status |-> 0, body |-> SharedDB_dump(db[n])]
    /\ proc' = [proc EXCEPT ![n] = "dumped"]
    /\ db' = [db EXCEPT ![n].data = EmptyMap]
    /\ UNCHANGED <<hist, drv, seen, budget, crit>>

\* shared_database.dump().await: one critical section that prints the
\* store.  The fetch loop, a task of its own, goes on before and after it.
Dump(n) ==
    /\ proc[n] = "drained"
    /\ LockFree(n)
    /\ resp' = [kind |-> "dump", node |-> n, status |-> 0, body |-> SharedDB_dump(db[n])]
    /\ proc' = [proc EXCEPT ![n] = "dumped"]
    /\ UNCHANGED <<db, hist, drv, seen, budget, crit>>

\* main() returns: the runtime is dropped once the task being polled has
\* reached an await (an append under way completes), and with it the fetch
\* loop, wherever it is waiting.
ProcessExit(n) ==
    /\ proc[n] = "dumped"
    /\ LockFree(n)
    /\ proc' = [proc EXCEPT ![n] = "exited"]
    /\ drv' = IF n = "L" /\ drv.pc \notin {"CaughtUp", "Cancelled", "Panicked"}
              THEN [drv EXCEPT !.pc = "Stopped"]
              ELSE drv
    /\ UNCHANGED <<db, hist, resp, seen, budget, crit>>

ClientInsertLock == \E n \in Nodes, modifs \in LockBatches : InsertLock(n, modifs)

LockedAppendStep == \E n \in Nodes : AppendStep(n)

LockedAppendRecord == \E n \in Nodes : AppendRecord(n)

CtrlC == \E n \in Nodes : Signal(n)

Drain == \E n \in Nodes : ServerStop(n)

DumpStore == \E n \in Nodes : Dump(n)

Exit == \E n \in Nodes : ProcessExit(n)

NextLock ==
    \/ ClientInsertLock
    \/ LockedAppendStep
    \/ LockedAppendRecord
    \/ ClientInfo
    \/ ClientFetch
    \/ ClientFetchPanic
    \/ ClientOther
    \/ DriverInfo
    \/ DriverFetchSend
    \/ DriverFetchServe
    \/ DriverRemoteDown
    \/ DriverAppendLock
    \/ DriverWake
    \/ DriverCancel
    \/ DriverExit
    \/ CtrlC
    \/ Drain
    \/ DumpStore
    \/ Exit

InitLock ==
    /\ db = [n \in Nodes |-> EmptyDB]
    /\ hist = [n \in Nodes |-> <<>>]
    /\ resp = NoResp
    /\ drv = InitDrv
    /\ seen = InitSeen
    /\ budget = MaxRequestsLock
    /\ crit = [n \in Nodes |-> Idle]
    /\ proc = [n \in Nodes |-> "up"]

SpecLock == InitLock /\ [][NextLock]_vars

(***************************************************************************)
(* Vocabulary of the properties.                                           *)
(***************************************************************************)
Size(n) == Cardinality(DOMAIN db[n].data)

Max(a, b) == IF a > b THEN a ELSE b

\* Appends the fetch loop has made on "L" (one per round), and the appends
\* on "L" that came from clients.
DriverAppends == drv.index \div MAX_CHUNK_SIZE

LocalClientWrites == Len(hist["L"]) - DriverAppends

\* l overridden by r wherever r is defined.
Override(l, r) ==
    IF DOMAIN r = {} THEN l
    ELSE IF DOMAIN l = {} THEN r
    ELSE [k \in (DOMAIN l) \cup (DOMAIN r) |-> IF k \in DOMAIN r THEN r[k] ELSE l[k]]

\* For every key named in ms[lo..hi], the last modification naming it.
RECURSIVE LastTouch(_, _, _)
LastTouch(ms, lo, hi) ==
    IF lo > hi THEN EmptyMap
    ELSE IF lo = hi THEN [k \in {ms[lo].key} |-> ms[lo]]
    ELSE LET mid == (lo + hi) \div 2
         IN  Override(LastTouch(ms, lo, mid), LastTouch(ms, mid + 1, hi))

\* For every key named in batches[lo..hi], the last modification naming it:
\* later batches override earlier ones.
RECURSIVE LastTouchOf(_, _, _)
LastTouchOf(batches, lo, hi) ==
    IF lo > hi THEN EmptyMap
    ELSE IF lo = hi THEN LastTouch(batches[lo], 1, Len(batches[lo]))
    ELSE LET mid == (lo + hi) \div 2
         IN  Override(LastTouchOf(batches, lo, mid), LastTouchOf(batches, mid + 1, hi))

\* The map a history of batches denotes: a key is present iff the last
\* modification naming it is an Update, and then holds that Update's value.
Live(last) == [k \in {j \in DOMAIN last : last[j].op = "Update"} |-> last[k].val]

\* Empty batches name no key and are skipped.
NonEmpty(batch) == Len(batch) > 0

LastTouchOfAll(batches) == LastTouchOf(batches, 1, Len(batches))

Replayed(batches) == Live(LastTouchOfAll(SelectSeq(batches, NonEmpty)))

\* A sequence of Update entries reassembled into a key -> value map.
AsMap(entries) ==
    LET last == LastTouch(entries, 1, Len(entries))
    IN  [k \in DOMAIN last |-> last[k].val]

\* Number of keys of `data` smaller than k: the ordinal position of k.
Rank(data, k) == Cardinality({j \in DOMAIN data : j < k})

(***************************************************************************)
(* C1.  Quiescent remote: when the fetch loop has ended in CaughtUp, no    *)
(* client wrote to "L", and nothing was appended to "R" between the loop's *)
(* info request and its last fetch, the store of "L" equals the store "R"  *)
(* had when it served that last request.  The code violates this.          *)
(***************************************************************************)
C1_QuiescentConvergence ==
    (/\ drv.pc = "CaughtUp"
     /\ LocalClientWrites = 0
     /\ seen.appends = seen.atInfo)
    => db["L"].data = seen.data

(***************************************************************************)
(* C2.  Moving target: when the fetch loop has ended in CaughtUp, no       *)
(* client wrote to "L", batches were appended to "R" during the bootstrap  *)
(* and none was evicted from its log, the store of "L" equals the store    *)
(* "R" had when it served the last fetch.  The code violates this.         *)
(***************************************************************************)
C2_MovingTargetCatchUp ==
    (/\ drv.pc = "CaughtUp"
     /\ LocalClientWrites = 0
     /\ seen.appends > seen.atInfo
     /\ seen.appends <= CACHE_BUFFER_SIZE)
    => db["L"].data = seen.data

(***************************************************************************)
(* C3.  On every node the store is the replay, from the empty map, of      *)
(* every batch ever appended (in append order, and in sequence order       *)
(* within a batch), whether or not batches have been evicted from the log, *)
(* and info().size is the number of keys of that replay.                   *)
(***************************************************************************)
StoreIs(d, replay) ==
    /\ d.data = replay
    /\ SharedDB_info(d).size = Cardinality(DOMAIN replay)

C3_StoreIsReplay == \A n \in Nodes : StoreIs(db[n], Replayed(hist[n]))

\* An append of [Update(1,1), Delete(1)] that evicted a batch from the log.
C3_Witness ==
    \E n \in Nodes :
        /\ Len(hist[n]) > CACHE_BUFFER_SIZE
        /\ hist[n][Len(hist[n])] = <<Update(1, 1), Delete(1)>>
        /\ 1 \notin DOMAIN db[n].data
        /\ Size(n) > 0

(***************************************************************************)
(* C4.  After n appends on a fresh node info().head = n: every append,     *)
(* whatever its batch, advances the head by exactly 1.  The code violates  *)
(* this.                                                                   *)
(***************************************************************************)
C4_HeadCountsAppends ==
    \A n \in Nodes : SharedDB_info(db[n]).head = Len(hist[n])

(***************************************************************************)
(* C5.  The head reported by info() and fetch() is the head of the batch   *)
(* at the front of the log (the most recently recorded one), and is 0      *)
(* exactly when the log is empty.  The code violates this.                 *)
(***************************************************************************)
C5_HeadIsNewest ==
    \A n \in Nodes :
        LET cache == db[n].cache
        IN  /\ Len(cache) > 0 => ModifsCache_head(cache) = cache[1].head
            /\ (ModifsCache_head(cache) = 0) <=> (Len(cache) = 0)

(***************************************************************************)
(* C6.  diff(h) for the head h of a retained batch is made of exactly the  *)
(* batches recorded after that batch; for an h that no retained batch      *)
(* carries it is made of every retained batch.  The code violates this.    *)
(***************************************************************************)
C6_DiffSelects ==
    \A n \in Nodes :
        LET cache == db[n].cache
        IN  /\ \A i \in 1..Len(cache) :
                   ModifsCache_diff(cache, cache[i].head) = ConcatModifs(cache, 1, i - 1)
            /\ \A h \in 0..(Len(hist[n]) + 1) :
                   (\A i \in 1..Len(cache) : cache[i].head # h)
                   => ModifsCache_diff(cache, h) = ConcatModifs(cache, 1, Len(cache))

(***************************************************************************)
(* C7.  The heads of the retained batches are pairwise distinct and        *)
(* strictly decreasing from the front of the log to its back.  The code    *)
(* violates this.                                                          *)
(***************************************************************************)
C7_HeadsStrictlyDecreasing ==
    \A n \in Nodes :
        \A i, j \in 1..Len(db[n].cache) :
            i < j => db[n].cache[i].head > db[n].cache[j].head

(***************************************************************************)
(* C8.  After n appends the log holds exactly the min(n, CACHE_BUFFER_SIZE)*)
(* most recently appended batches, newest at the front: read from its back *)
(* to its front the log is the tail of the append history.                 *)
(***************************************************************************)
C8_BoundedRetention ==
    \A n \in Nodes :
        LET cache == db[n].cache
            kept  == Min(Len(hist[n]), CACHE_BUFFER_SIZE)
        IN  /\ Len(cache) = kept
            /\ Len(cache) <= CACHE_BUFFER_SIZE
            /\ [i \in 1..kept |-> cache[kept + 1 - i].modifs]
                   = SubSeq(hist[n], Len(hist[n]) + 1 - kept, Len(hist[n]))

\* The append that overflowed the log of "R": one batch more than the
\* capacity has been appended, and the log is full.
C8_Witness ==
    /\ Len(hist["R"]) = CACHE_BUFFER_SIZE + 1
    /\ Len(db["R"].cache) = CACHE_BUFFER_SIZE
    /\ resp = [kind |-> "insert", node |-> "R", status |-> 200]

\* A step in which services_impl of node n answers a /fetch request.
FetchStep(n) ==
    /\ resp' # resp
    /\ resp'.kind = "fetch"
    /\ resp'.status = 200
    /\ resp'.node = n

(***************************************************************************)
(* C9 as claimed.  Every answer to fetch(0, size, 0), size being the       *)
(* number of keys of the store, carries the whole store.  The code         *)
(* violates this for stores of more than MAX_CHUNK_SIZE keys.              *)
(***************************************************************************)
C9_FetchAllReturnsStore ==
    [][\A n \in Nodes :
          (FetchStep(n) /\ resp'.begin = 0 /\ resp'.end = Size(n) /\ resp'.arg = 0)
          => AsMap(resp'.body.entries) = db[n].data]_vars

(***************************************************************************)
(* C9 amended.  Every answer to fetch(0, size, 0) carries the whole store  *)
(* when the store has at most MAX_CHUNK_SIZE keys, and otherwise exactly   *)
(* the store restricted to its MAX_CHUNK_SIZE smallest keys.               *)
(***************************************************************************)
C9_FetchAllReturnsFirstPage ==
    [][\A n \in Nodes :
          (FetchStep(n) /\ resp'.begin = 0 /\ resp'.end = Size(n) /\ resp'.arg = 0)
          => LET got == AsMap(resp'.body.entries)
             IN  /\ Size(n) <= MAX_CHUNK_SIZE => got = db[n].data
                 /\ Len(resp'.body.entries) = Min(Size(n), MAX_CHUNK_SIZE)
                 /\ DOMAIN got = {k \in DOMAIN db[n].data : Rank(db[n].data, k) < MAX_CHUNK_SIZE}
                 /\ \A k \in DOMAIN got : got[k] = db[n].data[k]]_vars

\* fetch(0, size, 0) has been answered by a node holding more than one key
\* and at most MAX_CHUNK_SIZE keys.
C9_Witness ==
    /\ resp.kind = "fetch"
    /\ resp.status = 200
    /\ resp.begin = 0
    /\ resp.arg = 0
    /\ resp.end = Size(resp.node)
    /\ Size(resp.node) > 1
    /\ Size(resp.node) <= MAX_CHUNK_SIZE
    /\ Len(resp.body.entries) = Size(resp.node)

\* SharedDB::fetch on the store {1: 1, 2: 2} with an empty log.
ScenarioC ==
    SharedDB_fetch([data |-> [k \in {1, 2} |-> k], cache |-> <<>>], 0, 1, 0)
        = [head |-> 0, entries |-> <<Update(1, 1)>>, diff |-> <<>>]

(***************************************************************************)
(* C10.  Every answer to fetch(begin, end, head) with begin <= end carries *)
(* as entries the Update(key, value) of the store keys at the ordinal      *)
(* positions begin .. begin + min(MAX_CHUNK_SIZE, end - begin) - 1, in     *)
(* ascending key order (fewer when the store ends earlier, none when       *)
(* begin >= size), the head info() reports, and diff(head); and on the     *)
(* store {a: 1, b: 2} with an empty log fetch(0, 1, 0) answers             *)
(* entries = [Update(a, 1)], diff = [].                                    *)
(***************************************************************************)
C10_FetchPage ==
    [][/\ ScenarioC
       /\ \A n \in Nodes :
            (FetchStep(n) /\ resp'.begin <= resp'.end)
            => LET begin   == resp'.begin
                   entries == resp'.body.entries
                   page    == Min(MAX_CHUNK_SIZE, resp'.end - begin)
                   count   == Max(0, Min(page, Size(n) - begin))
               IN  /\ Len(entries) = count
                   /\ \A i \in 1..count :
                        /\ entries[i].op = "Update"
                        /\ entries[i].key \in DOMAIN db[n].data
                        /\ Rank(db[n].data, entries[i].key) = begin + i - 1
                        /\ entries[i].val = db[n].data[entries[i].key]
                   /\ resp'.body.head = SharedDB_info(db[n]).head
                   /\ resp'.body.diff = ModifsCache_diff(db[n].cache, resp'.arg)]_vars

\* A fetch whose range is wider than a page has been answered by a node
\* holding more keys than the page: entries 2 .. MAX_CHUNK_SIZE + 1.
C10_Witness ==
    /\ resp.kind = "fetch"
    /\ resp.status = 200
    /\ resp.begin = 1
    /\ resp.end = MAX_CHUNK_SIZE + 2
    /\ Size(resp.node) > MAX_CHUNK_SIZE + 1
    /\ Len(resp.body.entries) = MAX_CHUNK_SIZE
    /\ resp.body.entries[1].key = 2

\* A step in which node n answers an info or a fetch, to a client or to
\* the fetch loop.
ReadStep(n) ==
    /\ \/ budget' = budget - 1
       \/ drv.pc = "info" /\ drv'.pc = "loop"
       \/ drv.pc \in {"loop", "fetching"} /\ drv'.pc = "fetched"
    /\ hist' = hist
    /\ resp'.kind \in {"info", "fetch"}
    /\ resp'.status = 200
    /\ resp'.node = n

(***************************************************************************)
(* C11.  append is atomic for the readers of the node: whenever a node     *)
(* answers an info or a fetch, every batch append was entered with is      *)
(* applied in full to its store and recorded in its log, the newest at the *)
(* front, and the size and the entries of the answer are those of the      *)
(* replay of these batches.                                                *)
(***************************************************************************)
C11_AppendAtomic ==
    [][\A n \in Nodes :
          ReadStep(n)
          => LET replay == Replayed(hist[n])
             IN  /\ db[n].data = replay
                 /\ Len(db[n].cache) = Min(Len(hist[n]), CACHE_BUFFER_SIZE)
                 /\ Len(hist[n]) > 0 => db[n].cache[1].modifs = hist[n][Len(hist[n])]
                 /\ resp'.kind = "info" => resp'.body.size = Cardinality(DOMAIN replay)
                 /\ resp'.kind = "fetch"
                    => \A i \in 1..Len(resp'.body.entries) :
                         LET e == resp'.body.entries[i]
                         IN  e.key \in DOMAIN replay /\ replay[e.key] = e.val]_vars

\* The fetch loop sent a request while "R" was part-way through a batch
\* of two modifications, and has its answer.
C11_Witness ==
    /\ drv.pc = "fetched"
    /\ seen.queued
    /\ resp.kind = "fetch"
    /\ resp.node = "R"
    /\ resp.body = drv.res
    /\ LockFree("R")
    /\ hist["R"][Len(hist["R"])] = <<Update(1, 1), Delete(1)>>
    /\ Len(resp.body.entries) = 1

\* The keys a batch names.
Keys(batch) == {batch[i].key : i \in 1..Len(batch)}

\* Store `data` holds, for the keys of `batch`, what `batch` leaves there.
HoldsEffectOf(data, batch) ==
    LET own == Replayed(<<batch>>)
    IN  \A k \in Keys(batch) :
            IF k \in DOMAIN own THEN k \in DOMAIN data /\ data[k] = own[k]
            ELSE k \notin DOMAIN data

(***************************************************************************)
(* C12.  Two appends that follow each other on a node in either order and  *)
(* name disjoint keys both take effect: once the second has completed the  *)
(* store holds the effect of each on its keys and is the same as if they   *)
(* had run in the other order, info().size counts the keys of both, and    *)
(* both batches are in the log.                                            *)
(***************************************************************************)
C12_DisjointAppendsBothApply ==
    \A n \in Nodes :
        (LockFree(n) /\ Len(hist[n]) >= 2)
        => LET len  == Len(hist[n])
               b1   == hist[n][len - 1]
               b2   == hist[n][len]
               prev == Replayed(SubSeq(hist[n], 1, len - 2))
               rest == (DOMAIN prev) \ (Keys(b1) \cup Keys(b2))
           IN  Keys(b1) \cap Keys(b2) = {}
               => /\ HoldsEffectOf(db[n].data, b1)
                  /\ HoldsEffectOf(db[n].data, b2)
                  /\ \A k \in rest : k \in DOMAIN db[n].data /\ db[n].data[k] = prev[k]
                  /\ db[n].data = ApplyModifs(ApplyModifs(prev, b2), b1)
                  /\ SharedDB_info(db[n]).size
                         = Cardinality(rest) + Cardinality(DOMAIN Replayed(<<b1>>))
                                             + Cardinality(DOMAIN Replayed(<<b2>>))
                  /\ db[n].cache[1].modifs = b2
                  /\ db[n].cache[2].modifs = b1

\* On "L" the append of the fetch loop and the append of a client's
\* /insert, on different keys, have both completed, the client's first.
C12_Witness ==
    /\ LockFree("L")
    /\ Len(hist["L"]) = 2
    /\ seen.applied = 1
    /\ hist["L"][1] = <<Update(2, 2)>>
    /\ hist["L"][2] = <<Update(1, 1)>>
    /\ drv.pc = "sleep"
    /\ Size("L") = 2

\* ceil(s / MAX_CHUNK_SIZE)
RoundsFor(s) == (s + MAX_CHUNK_SIZE - 1) \div MAX_CHUNK_SIZE

(***************************************************************************)
(* C13.  With S the size the remote reported to the info request, the      *)
(* fetch loop sends its fetch requests at index 0, 20, 40, ..., advances   *)
(* index by MAX_CHUNK_SIZE with every round whatever the response carried, *)
(* and when it ends in CaughtUp it has made exactly ceil(S/MAX_CHUNK_SIZE) *)
(* rounds and index is the smallest multiple of MAX_CHUNK_SIZE that is     *)
(* >= S (no round at all for S = 0).                                       *)
(***************************************************************************)
C13_RoundCount ==
    /\ drv.pc # "info" => drv.end = seen.size
    /\ \A i \in 1..Len(seen.rounds) : seen.rounds[i] = MAX_CHUNK_SIZE * (i - 1)
    /\ Len(seen.rounds) <= RoundsFor(seen.size)
    /\ drv.index = MAX_CHUNK_SIZE * (seen.applied + IF drv.pc = "appending" THEN 1 ELSE 0)
    /\ drv.pc = "CaughtUp"
       => /\ Len(seen.rounds) = RoundsFor(seen.size)
          /\ seen.applied = RoundsFor(seen.size)
          /\ drv.index = MAX_CHUNK_SIZE * RoundsFor(seen.size)
          /\ drv.index >= seen.size
          /\ drv.index < seen.size + MAX_CHUNK_SIZE
          /\ seen.size = 0 => seen.rounds = <<>> /\ Len(hist["L"]) = LocalClientWrites

\* The remote reported a size between 41 and 60: rounds at 0, 20 and 40,
\* the last one carrying fewer than MAX_CHUNK_SIZE entries, and CaughtUp at
\* index 60.
C13_Witness ==
    /\ drv.pc = "CaughtUp"
    /\ seen.size = NumKeys
    /\ seen.rounds = <<0, MAX_CHUNK_SIZE, 2 * MAX_CHUNK_SIZE>>
    /\ drv.index = 3 * MAX_CHUNK_SIZE
    /\ seen.applied = 3
    /\ Size("L") = NumKeys

(***************************************************************************)
(* C14.  A fetch with end < begin is answered with an error (a 400         *)
(* status) and no page.  The code violates this: it answers 200 with a     *)
(* page of MAX_CHUNK_SIZE entries when `end - begin` wraps, and closes the *)
(* connection without an answer when `end - begin` panics.                 *)
(***************************************************************************)
C14_InvalidRangeRejected ==
    (resp.kind = "fetch" /\ resp.end < resp.begin) => resp.status = 400

\* Modifications applied to the reachable stores: keys present in some of
\* them and absent from others, and a key no store holds.
ModifSamples ==
    {Delete(k) : k \in {1, MAX_CHUNK_SIZE + 2, NumKeys + 1}}
    \cup {Update(1, 1), Update(1, 2), Update(MAX_CHUNK_SIZE + 2, 1), Update(NumKeys + 1, 2)}

\* `once` is `data` with m applied: m's key is left as m says, no other key
\* is touched, and applying m a second time changes nothing.
AppliedOnce(data, m, once) ==
    /\ ApplyModif(once, m) = once
    /\ ApplyModifs(data, <<m, m>>) = once
    /\ m.op = "Update" => (m.key \in DOMAIN once /\ once[m.key] = m.val)
    /\ m.op = "Delete" => m.key \notin DOMAIN once
    /\ (m.op = "Delete" /\ m.key \notin DOMAIN data) => once = data
    /\ (DOMAIN once) \ {m.key} = (DOMAIN data) \ {m.key}
    /\ \A k \in (DOMAIN data) \ {m.key} : once[k] = data[k]

(***************************************************************************)
(* C15.  Applying a modification to a store twice gives the store that     *)
(* applying it once gives: Update(k, v) leaves k holding v, Delete(k)      *)
(* leaves k absent and changes nothing when k was absent, and neither      *)
(* touches another key.                                                    *)
(***************************************************************************)
C15_ApplyIdempotent ==
    \A n \in Nodes : \A m \in ModifSamples :
        AppliedOnce(db[n].data, m, ApplyModif(db[n].data, m))

\* The fetch loop has applied Update(1, 2) to "L" twice in one batch, once
\* from the entries and once from the diff, with no other modification of
\* key 1 in between.
C15_Witness ==
    /\ Len(hist["L"]) >= 1
    /\ LET batch == hist["L"][1]
           ones  == {i \in 1..Len(batch) : batch[i].key = 1}
       IN  /\ Cardinality(ones) = 2
           /\ \A i \in ones : batch[i] = Update(1, 2)
    /\ LockFree("L")
    /\ Len(hist["L"]) = 1
    /\ db["L"].data[1] = 2

(***************************************************************************)
(* C16.  Every fetch request of the loop is fetch(index, min(index +       *)
(* MAX_CHUNK_SIZE, target), tracked_head): target is the size the remote   *)
(* reported to the info request and never changes afterwards, tracked_head *)
(* is the head carried by the latest answer of the remote (the info answer *)
(* before the first round, the previous fetch answer afterwards); and the  *)
(* entries of the response followed by its diff are appended to the local  *)
(* node as one batch, one append and one new log record per round.         *)
(***************************************************************************)
C16_RoundRequest ==
    [][/\ (drv.pc = "loop" /\ drv'.pc = "fetched")
          => /\ resp'.kind = "fetch"
             /\ resp'.node = "R"
             /\ resp'.begin = drv.index
             /\ resp'.end = Min(drv.index + MAX_CHUNK_SIZE, seen.size)
             /\ resp'.arg = seen.head
             /\ drv'.res = resp'.body
       /\ drv.pc # "info" => (drv.end = seen.size /\ drv'.end = drv.end)
       /\ (drv.pc = "fetched" /\ drv'.pc = "sleep")
          => LET batch == drv.res.entries \o drv.res.diff
             IN  /\ hist'["L"] = Append(hist["L"], batch)
                 /\ Len(db'["L"].cache) = Min(Len(db["L"].cache) + 1, CACHE_BUFFER_SIZE)
                 /\ db'["L"].cache[1].modifs = batch
                 /\ seen'.applied = seen.applied + 1
                 /\ drv'.head = seen.head]_vars

\* The second round against a remote that, after the info request and
\* before the first fetch, had [Update(1,1), Delete(1)] appended: its size
\* is one less than the target, its head 2 instead of the 1 of the info
\* answer, and the request is fetch(20, 40, 2).
C16_Witness ==
    /\ drv.pc = "fetched"
    /\ resp.kind = "fetch"
    /\ resp.node = "R"
    /\ resp.begin = MAX_CHUNK_SIZE
    /\ resp.end = 2 * MAX_CHUNK_SIZE
    /\ resp.arg = 2
    /\ seen.size = NumKeys
    /\ Size("R") = NumKeys - 1
    /\ seen.applied = 1

(***************************************************************************)
(* C17.  The fetch loop becomes Cancelled only from the wait that follows  *)
(* a round; a ctrl-c that arrives while a fetch request is in flight, or   *)
(* while its response is being appended, leaves the loop as it is, and     *)
(* when the loop is Cancelled every round it fetched has been appended to  *)
(* the local node; once Cancelled the loop stays so, sends no info or      *)
(* fetch request to the remote and appends nothing to the local node.      *)
(***************************************************************************)
C17_CancelOnlyAtWait ==
    [][/\ (drv'.pc = "Cancelled" /\ drv.pc # "Cancelled") => drv.pc = "sleep"
       /\ drv'.pc = "Cancelled"
          => /\ seen'.applied = Len(seen'.rounds)
             /\ drv'.index = MAX_CHUNK_SIZE * seen'.applied
             /\ drv'.res = NoRes
             /\ crit'["L"].owner # "driver"
       /\ (drv.pc \in {"fetching", "fetched", "appending"}
              /\ proc["L"] = "up" /\ proc'["L"] = "stopping")
          => drv' = drv
       /\ drv.pc = "Cancelled"
          => /\ drv' = drv
             /\ seen' = seen
             /\ hist'["L"] # hist["L"] => crit'["L"].owner = "client"
             /\ (resp' # resp /\ resp'.kind \in {"info", "fetch"})
                => budget' = budget - 1]_vars

\* ctrl-c reached "L" while the fetch request of the only round was in
\* flight; the response was appended all the same, and the loop returned
\* from the wait that followed.
C17_Witness ==
    /\ drv.pc = "Cancelled"
    /\ seen.signalled
    /\ seen.rounds = <<0>>
    /\ seen.applied = 1
    /\ Len(hist["L"]) >= 1
    /\ Size("L") >= 1
    /\ proc["L"] = "stopping"

\* The batches hi, hi - 1, ..., lo of a sequence of batches, one after the
\* other: the last of them first.
RECURSIVE FlatBack(_, _, _)
FlatBack(batches, lo, hi) ==
    IF lo > hi THEN <<>>
    ELSE IF lo = hi THEN batches[lo]
    ELSE LET mid == (lo + hi) \div 2
         IN  FlatBack(batches, mid + 1, hi) \o FlatBack(batches, lo, mid)

\* The position in `ms` of the last modification naming key k.
LastOf(ms, k) ==
    CHOOSE j \in 1..Len(ms) :
        ms[j].key = k /\ \A i \in (j + 1)..Len(ms) : ms[i].key # k

(***************************************************************************)
(* C18.  The diff of every fetch answer is made of the selected batches    *)
(* taken from the most recently appended one backwards, each batch in its  *)
(* own order; the fetch loop appends entries followed by that diff as they *)
(* come, so that for every key the diff names, the local node is left with *)
(* what the last modification of the diff naming it does: the one of the   *)
(* oldest selected batch that names the key.                               *)
(***************************************************************************)
C18_DiffNewestFirstReplayed ==
    [][/\ \A n \in Nodes :
            FetchStep(n)
            => LET cache == db[n].cache
                   hits  == {i \in 1..Len(cache) : cache[i].head = resp'.arg}
                   m     == IF hits = {} THEN Len(cache)
                            ELSE (CHOOSE i \in hits : \A j \in hits : i <= j) - 1
                   H     == Len(hist[n])
               IN  resp'.body.diff = FlatBack(hist[n], H + 1 - m, H)
       /\ (drv.pc = "fetched" /\ drv'.pc = "sleep")
          => LET diff == drv.res.diff
             IN  /\ hist'["L"] = Append(hist["L"], drv.res.entries \o diff)
                 /\ \A k \in Keys(diff) :
                      LET last == diff[LastOf(diff, k)]
                      IN  IF last.op = "Update"
                          THEN k \in DOMAIN db'["L"].data /\ db'["L"].data[k] = last.val
                          ELSE k \notin DOMAIN db'["L"].data]_vars

\* The remote wrote key 2 with value 1 and later with value 2; the batch
\* the loop appended holds Update(2,2) before Update(2,1), and the local
\* node is left with the older value 1.
C18_Witness ==
    /\ seen.applied >= 1
    /\ LockFree("L")
    /\ LocalClientWrites = 0
    /\ db["R"].data[2] = 2
    /\ 2 \in DOMAIN db["L"].data
    /\ db["L"].data[2] = 1
    /\ LET batch == hist["L"][1]
       IN  \E i, j \in MAX_CHUNK_SIZE..Len(batch) :
               i < j /\ batch[i] = Update(2, 2) /\ batch[j] = Update(2, 1)

(***************************************************************************)
(* C19.  A fetch whose head argument is the head the node reports at that  *)
(* moment (the head the preceding info or fetch returned, no append in     *)
(* between) is answered with an empty diff.  The code violates this.       *)
(***************************************************************************)
C19_CaughtUpDiffEmpty ==
    (resp.kind = "fetch" /\ resp.status = 200 /\ resp.arg = resp.body.head)
    => resp.body.diff = <<>>

(***************************************************************************)
(* C20.  info, fetch and dump are read-only: a step in which a node        *)
(* answers an info or a fetch (or fails to, on an inverted range), or      *)
(* dumps its store on shutdown, changes no store and no log; a store or a  *)
(* log changes only inside an append, by the next modification of the      *)
(* batch or by the recording of the batch; and no step of the fetch loop   *)
(* changes the remote node.                                                *)
(***************************************************************************)
C20_ReadsChangeNothing ==
    [][\A n \in Nodes :
          /\ ReadStep(n) => (db' = db /\ hist' = hist)
          /\ (budget' = budget - 1 /\ hist' = hist) => db' = db
          /\ (proc[n] = "drained" /\ proc'[n] = "dumped")
             => /\ db' = db
                /\ hist' = hist
                /\ resp'.kind = "dump"
                /\ Len(resp'.body) = Size(n)
                /\ \A i \in 1..Len(resp'.body) :
                     /\ resp'.body[i][1] \in DOMAIN db[n].data
                     /\ resp'.body[i][2] = db[n].data[resp'.body[i][1]]
                     /\ Rank(db[n].data, resp'.body[i][1]) = i - 1
          /\ db'[n] # db[n]
             => /\ crit[n].owner # "none"
                /\ \/ /\ crit[n].pos < Len(crit[n].modifs)
                      /\ db'[n].cache = db[n].cache
                      /\ db'[n].data = ApplyModif(db[n].data, crit[n].modifs[crit[n].pos + 1])
                   \/ /\ crit[n].pos = Len(crit[n].modifs)
                      /\ db'[n].data = db[n].data
                      /\ db'[n].cache[1].modifs = crit[n].modifs
          /\ hist'[n] # hist[n]
             => /\ crit'[n].owner # "none"
                /\ hist'[n] = Append(hist[n], crit'[n].modifs)
          /\ (drv' # drv \/ seen' # seen)
             => (db'["R"] = db["R"] /\ hist'["R"] = hist["R"])]_vars

\* The remote was copied by the fetch loop and then shut down: its dump
\* lists the store the loop was served from, key by key.
C20_Witness ==
    /\ proc["R"] = "exited"
    /\ resp.kind = "dump"
    /\ resp.node = "R"
    /\ Len(resp.body) = 2
    /\ seen.applied = 1
    /\ seen.data = db["R"].data
    /\ db["L"].data = db["R"].data

====
